---- MODULE Spec2Model ----
(***************************************************************************)
(* Model of the App Insights -> Jira bridge (src/app.py).                  *)
(*                                                                         *)
(* A /trigger pass is a thread of control that walks through               *)
(* manual_trigger, is_exception_processed, get_table_client,               *)
(* create_jira_issue and mark_exception_processed; every call to an        *)
(* external service (telemetry, table store, tracker) and every access to  *)
(* the global table_client is one step.  The table store and the tracker   *)
(* are the environment: the store can go down, come back and lose its      *)
(* table at any moment, the tracker answers each POST as it pleases.       *)
(***************************************************************************)
EXTENDS Integers, Sequences, FiniteSets, TLC

----------------------------------------------------------------------------
(* Bounds of the model *)

\* exceptions fetched by the passes of one behaviour, all passes together
MaxFetched == 2

\* outages and table losses of the table service in one behaviour
MaxFaults == 1

----------------------------------------------------------------------------
(* Program constants *)

\* MAX_RETRIES = int(os.environ.get('MAX_RETRIES', 3))
MAX_RETRIES == 3

\* max_retries = 3 in mark_exception_processed
max_retries == 3

\* app.py binds TableServiceClient, ResourceExistsError and
\* ResourceNotFoundError by from-imports; the name `azure` itself is never
\* bound, so evaluating `azure.core.exceptions.ResourceNotFoundError` in an
\* except clause raises NameError.
azure_bound == FALSE

\* ensure_table_exists is called on lines 205 and 250 and defined nowhere.
ensure_table_exists_defined == FALSE

None == "None"

----------------------------------------------------------------------------
(* Timestamps: dateutil parse() and strftime("%Y%m%d%H%M%S") *)

T1 == "2024-01-01T00:00:00Z"
T1f == "2024-01-01T00:00:00.5Z"
T2 == "2024-01-01T00:00:01Z"

Timestamps == {T1, T1f, T2}

ProblemIds == {"P1", "P2"}

\* The characters of a timestamp string.
Chars(ts) ==
  CASE ts = T1 ->
         <<"2","0","2","4","-","0","1","-","0","1","T",
           "0","0",":","0","0",":","0","0","Z">>
    [] ts = T1f ->
         <<"2","0","2","4","-","0","1","-","0","1","T",
           "0","0",":","0","0",":","0","0",".","5","Z">>
    [] ts = T2 ->
         <<"2","0","2","4","-","0","1","-","0","1","T",
           "0","0",":","0","0",":","0","1","Z">>

DigitVal(c) ==
  CASE c = "0" -> 0 [] c = "1" -> 1 [] c = "2" -> 2 [] c = "3" -> 3
    [] c = "4" -> 4 [] c = "5" -> 5 [] c = "6" -> 6 [] c = "7" -> 7
    [] c = "8" -> 8 [] c = "9" -> 9

DigitStr(d) ==
  CASE d = 0 -> "0" [] d = 1 -> "1" [] d = 2 -> "2" [] d = 3 -> "3"
    [] d = 4 -> "4" [] d = 5 -> "5" [] d = 6 -> "6" [] d = 7 -> "7"
    [] d = 8 -> "8" [] d = 9 -> "9"

IsDigit(c) == c \in {"0","1","2","3","4","5","6","7","8","9"}

\* The number written by the digits cs[from..to].
RECURSIVE Num(_, _, _)
Num(cs, from, to) ==
  IF to < from THEN 0
  ELSE 10 * Num(cs, from, to - 1) + DigitVal(cs[to])

\* The digits of the fraction that starts at position from (after the dot).
RECURSIVE FractionEnd(_, _)
FractionEnd(cs, from) ==
  IF from <= Len(cs) /\ IsDigit(cs[from]) THEN FractionEnd(cs, from + 1)
  ELSE from - 1

\* parse(timestamp) on an ISO-8601 text YYYY-MM-DDTHH:MM:SS[.f]Z: the fields
\* are read as written, no conversion of the zone.
parse(ts) ==
  LET cs == Chars(ts)
      hasFraction == Len(cs) >= 20 /\ cs[20] = "."
  IN [year |-> Num(cs, 1, 4), month |-> Num(cs, 6, 7), day |-> Num(cs, 9, 10),
      hour |-> Num(cs, 12, 13), minute |-> Num(cs, 15, 16),
      second |-> Num(cs, 18, 19),
      fraction |-> IF hasFraction
                   THEN SubSeq(cs, 21, FractionEnd(cs, 21))
                   ELSE <<>>]

Pad2(n) == DigitStr((n \div 10) % 10) \o DigitStr(n % 10)

Pad4(n) == DigitStr((n \div 1000) % 10) \o DigitStr((n \div 100) % 10)
           \o Pad2(n % 100)

\* strftime("%Y%m%d%H%M"): whole minutes.
strftime_minutes(dt) ==
  Pad4(dt.year) \o Pad2(dt.month) \o Pad2(dt.day) \o Pad2(dt.hour)
  \o Pad2(dt.minute)

\* strftime("%Y%m%d%H%M%S"): whole seconds, the fraction is dropped.
strftime(dt) ==
  Pad4(dt.year) \o Pad2(dt.month) \o Pad2(dt.day) \o Pad2(dt.hour)
  \o Pad2(dt.minute) \o Pad2(dt.second)

\* A row key that keeps the timestamp as it came, fraction and all.
row_key_of_untruncated(ts) == ts

\* row_key = parse(timestamp).strftime("%Y%m%d%H%M%S")
row_key_of(ts) == strftime(parse(ts))

----------------------------------------------------------------------------
(* Telemetry: the answer of the App Insights query API *)

\* After the module has loaded, APPINSIGHTS_APP_ID and APPINSIGHTS_API_KEY
\* are set: startup raises ValueError otherwise.
StartedEnviron == [APPINSIGHTS_APP_ID |-> TRUE, APPINSIGHTS_API_KEY |-> TRUE]

Columns == {"timestamp", "problemId", "type", "outerMessage",
            "customDimensions"}

\* The exceptions the backend may hold, each a mapping from column to value.
BackendRecord(ts, pid) ==
  [c \in Columns |->
     CASE c = "timestamp" -> ts
       [] c = "problemId" -> pid
       [] c = "type" -> "NullReferenceException"
       [] c = "outerMessage" -> "boom"
       [] c = "customDimensions" -> "{}"]

\* The query ends in `order by timestamp desc`: an answer lists exceptions
\* of the backend most recent first.
BackendRecords ==
  <<BackendRecord(T2, "P1"), BackendRecord(T1f, "P2"), BackendRecord(T1, "P1")>>

\* Column orders an answer may come in; the last one lacks problemId.
ColumnOrders ==
  {<<"timestamp", "problemId", "type", "outerMessage", "customDimensions">>,
   <<"problemId", "customDimensions", "timestamp", "outerMessage", "type">>,
   <<"timestamp", "type", "outerMessage", "customDimensions">>}

SeqsUpTo(S, n) == UNION {[1..k -> S] : k \in 0..n}

\* One table of an answer: the columns, and each record laid out in them.
TableOf(cols, recs) ==
  [columns |-> cols,
   rows |-> [k \in 1..Len(recs) |-> [j \in 1..Len(cols) |-> recs[k][cols[j]]]]]

\* Any of the backend's exceptions, in the backend's order.
Answers ==
  {[k \in 1..Len(ix) |-> BackendRecords[ix[k]]] :
     ix \in {s \in SeqsUpTo(1..Len(BackendRecords), Len(BackendRecords)) :
               \A i, j \in 1..Len(s) : i < j => s[i] < s[j]}}

AnswerTables ==
  {TableOf(cols, recs) : cols \in ColumnOrders, recs \in Answers}

\* What requests.post gives: an exception (timeout, connection error), or a
\* response with a status, a body that is JSON or not, the top-level keys of
\* that JSON and its 'tables'.
Responses ==
  {[sent |-> FALSE, status |-> 0, json |-> FALSE, keys |-> {}, tables |-> <<>>]}
  \cup {[sent |-> TRUE, status |-> st, json |-> FALSE, keys |-> {},
         tables |-> <<>>] : st \in {200, 500}}
  \cup {[sent |-> TRUE, status |-> st, json |-> TRUE, keys |-> {"error"},
         tables |-> <<>>] : st \in {200, 500}}
  \cup {[sent |-> TRUE, status |-> st, json |-> TRUE, keys |-> {"tables"},
         tables |-> <<>>] : st \in {200, 500}}
  \cup {[sent |-> TRUE, status |-> st, json |-> TRUE, keys |-> {"tables"},
         tables |-> <<tb>>] : st \in {200, 500}, tb \in AnswerTables}

Returned(v) == [kind |-> "return", value |-> v]

Raised(e) == [kind |-> "raise", value |-> e]

\* dict(zip(columns, row))
RowDict(columns, row) ==
  LET n == IF Len(columns) < Len(row) THEN Len(columns) ELSE Len(row)
  IN [c \in {columns[j] : j \in 1..n} |->
        row[CHOOSE j \in 1..n : columns[j] = c
                                /\ \A k \in (j + 1)..n : columns[k] # c]]

\* formatted_row = [timestamp, problemId, {type, message, customDimensions}]
FormattedRow(d) ==
  <<d["timestamp"], d["problemId"],
    [type |-> d["type"], message |-> d["outerMessage"],
     customDimensions |-> d["customDimensions"]]>>

\* The body of the try block of query_app_insights.
query_try(environ, resp) ==
  IF ~environ.APPINSIGHTS_APP_ID \/ ~environ.APPINSIGHTS_API_KEY
  THEN Returned(<<>>)
  ELSE IF ~resp.sent THEN Raised("RequestException")
  ELSE IF resp.status # 200 THEN Returned(<<>>)
  ELSE IF ~resp.json THEN Raised("JSONDecodeError")
  ELSE IF "tables" \notin resp.keys \/ resp.tables = <<>> THEN Returned(<<>>)
  ELSE LET tb == resp.tables[1]
           dicts == [k \in 1..Len(tb.rows) |-> RowDict(tb.columns, tb.rows[k])]
       IN IF \E k \in 1..Len(dicts) : ~(Columns \subseteq DOMAIN dicts[k])
          THEN Raised("KeyError")
          ELSE Returned([k \in 1..Len(dicts) |-> FormattedRow(dicts[k])])

\* query_app_insights without its except clause.
query_app_insights_unguarded(environ, resp) == query_try(environ, resp)

\* query_app_insights: except Exception -> return []
query_app_insights(environ, resp) ==
  LET r == query_try(environ, resp)
  IN IF r.kind = "raise" THEN Returned(<<>>) ELSE r

----------------------------------------------------------------------------
(* The table store: entities, upsert and query as Azure Tables does them *)

\* The entity mark_exception_processed builds.  ProcessedTime, the wall
\* clock at the write, is left out: nothing reads it.
Entity(problem_id, timestamp, jira_key) ==
  [PartitionKey |-> "exceptions",
   RowKey |-> row_key_of(timestamp),
   JiraKey |-> jira_key,
   OriginalProblemId |-> problem_id,
   OriginalTimestamp |-> timestamp]

SameKey(a, b) == a.PartitionKey = b.PartitionKey /\ a.RowKey = b.RowKey

\* client.upsert_entity(entity): insert, or replace the entity of that key.
upsert_entity(rows, entity) ==
  {e \in rows : ~SameKey(e, entity)} \cup {entity}

\* client.query_entities("RowKey eq '<row_key>'")
query_entities(rows, row_key) == {e \in rows : e.RowKey = row_key}

----------------------------------------------------------------------------
(* The tracker: the answer of Jira to POST /rest/api/2/issue *)

\* What requests.post gives create_jira_issue: an exception, or a response
\* with a status class and a body that is JSON holding 'key', JSON without
\* it, or no JSON.  Only a 2xx answer carries the key of a created ticket.
JiraAnswers ==
  {[sent |-> FALSE, status |-> "none", body |-> "none"]}
  \cup {[sent |-> TRUE, status |-> "2xx", body |-> b] :
          b \in {"key", "no_key", "not_json"}}
  \cup {[sent |-> TRUE, status |-> "3xx", body |-> b] :
          b \in {"no_key", "not_json"}}
  \cup {[sent |-> TRUE, status |-> st, body |-> b] :
          st \in {"4xx", "5xx"}, b \in {"no_key", "not_json"}}

\* response.raise_for_status(): HTTPError for a 4xx or 5xx status.
raise_for_status(status) == status \in {"4xx", "5xx"}

NoJson == [has_key |-> FALSE, key |-> 0]

\* A create_jira_issue that hands back a key for any JSON body.
create_jira_issue_any_body(answer, new_key) ==
  IF ~answer.sent THEN Raised("RequestException")
  ELSE IF raise_for_status(answer.status) THEN Raised("HTTPError")
  ELSE IF answer.body = "not_json" THEN Raised("JSONDecodeError")
  ELSE Returned([has_key |-> TRUE, key |-> new_key])

\* create_jira_issue: one POST; raise_for_status and response.json() may
\* raise, and the except clause re-raises.
create_jira_issue(answer, new_key) ==
  IF ~answer.sent THEN Raised("RequestException")
  ELSE IF raise_for_status(answer.status) THEN Raised("HTTPError")
  ELSE IF answer.body = "not_json" THEN Raised("JSONDecodeError")
  ELSE IF answer.body = "key"
       THEN Returned([has_key |-> TRUE, key |-> new_key])
       ELSE Returned(NoJson)

\* summary = f"Exception {problem_id} at {timestamp}"
Summary(problem_id, timestamp) ==
  "Exception " \o problem_id \o " at " \o timestamp

----------------------------------------------------------------------------
(* Secrets: AzureKeyVaultClient (src/azure_key_vault.py) and load_secrets *)

\* Required secrets the starting environment may lack.
MaxAbsent == 2

\* load_secrets runs in one behaviour.
MaxLoads == 2

\* _get_secret_with_retry(self, secret_name, max_retries: int = 5, ...)
get_secret_max_retries == 5

\* An environment variable that is not set: os.environ.get gives None.
Unset == "<unset>"

\* REQUIRED_SECRETS, each name as its pieces: words and the '-' between.
REQUIRED_SECRETS ==
  << <<"APPINSIGHTS", "-", "APP", "-", "ID">>,
     <<"APPINSIGHTS", "-", "API", "-", "KEY">>,
     <<"JIRA", "-", "EMAIL">>,
     <<"JIRA", "-", "TOKEN">>,
     <<"JIRA", "-", "URL">>,
     <<"JIRA", "-", "PROJECT">>,
     <<"AZURE", "-", "CONNECTION", "-", "STRING">> >>

\* The string a sequence of pieces spells.
RECURSIVE Join(_)
Join(pieces) ==
  IF pieces = <<>> THEN "" ELSE Head(pieces) \o Join(Tail(pieces))

\* secret_name.replace("-", "_")
replace(pieces, old, new) ==
  [i \in 1..Len(pieces) |-> IF pieces[i] = old THEN new ELSE pieces[i]]

\* env_name = secret_name.replace("-", "_")
env_name(secret_name) == Join(replace(secret_name, "-", "_"))

SecretNames == {Join(REQUIRED_SECRETS[i]) : i \in 1..Len(REQUIRED_SECRETS)}

SecretEnvNames ==
  {env_name(REQUIRED_SECRETS[i]) : i \in 1..Len(REQUIRED_SECRETS)}

EnvNames == SecretEnvNames \cup {"AZURE_VAULT_NAME"}

\* The value a variable has when the environment sets it, and the value of
\* a secret the vault holds.
EnvValue(name) == "env:" \o name

VaultValue(secret) == "vault:" \o secret

\* `if env_value:` / `if not os.environ.get(name)`: None and '' are false.
Truthy(value) == value # Unset /\ value # ""

\* Environments a process may start in: AZURE_VAULT_NAME set or not, and at
\* most MaxAbsent of the secrets unset or empty.
Environs ==
  {[n \in EnvNames |->
      IF n \in DOMAIN absent THEN absent[n]
      ELSE IF n = "AZURE_VAULT_NAME" THEN vault_name
      ELSE EnvValue(n)] :
     absent \in UNION {[A -> {Unset, ""}] :
                         A \in {X \in SUBSET SecretEnvNames :
                                  Cardinality(X) <= MaxAbsent}},
     vault_name \in {Unset, EnvValue("AZURE_VAULT_NAME")}}

\* An environment with everything set: what a serving process runs in.
FullEnviron == [n \in EnvNames |-> EnvValue(n)]

\* What secret_client.get_secret gives: the secret, ResourceNotFoundError
\* (404), HttpResponseError with status 429 or another status, or an error
\* that is no HttpResponseError.
VaultAnswers == {"value", "404", "429", "500", "ServiceRequestError"}

\* The names, in their order, that the environment gives no value for.
RECURSIVE NotInEnviron(_, _)
NotInEnviron(names, environment) ==
  IF names = <<>> THEN <<>>
  ELSE IF Truthy(environment[env_name(Head(names))])
       THEN NotInEnviron(Tail(names), environment)
       ELSE <<Head(names)>> \o NotInEnviron(Tail(names), environment)

\* A scan that asks the vault for every secret, set in the environment or
\* not.
secrets_to_fetch_all(environment) == REQUIRED_SECRETS

\* secrets_to_fetch after the loop of lines 98-106
secrets_to_fetch(environment) == NotInEnviron(REQUIRED_SECRETS, environment)

\* secrets after the loop of lines 98-106: the values found in the
\* environment, by env_name.
secrets_from_environ(environment) ==
  [n \in {m \in SecretEnvNames : Truthy(environment[m])} |-> environment[n]]

\* One turn of the loop of _get_secret_with_retry that retries whatever
\* the error.
get_secret_attempt_retry_all(answer, attempt, secret) ==
  IF answer = "value" THEN Returned(VaultValue(secret))
  ELSE IF attempt = get_secret_max_retries - 1 THEN Raised(answer)
  ELSE Returned("<retry>")

\* One turn of the loop of _get_secret_with_retry: the value, the error
\* raised, or "<retry>" after a 429 that is not the last attempt.
get_secret_attempt(answer, attempt, secret) ==
  IF answer = "value" THEN Returned(VaultValue(secret))
  ELSE IF answer = "429"
       THEN IF attempt = get_secret_max_retries - 1 THEN Raised("429")
            ELSE Returned("<retry>")
       ELSE Raised(answer)

\* An environment replaced by the secrets it was given.
load_secrets_environ_replace(environment, secrets) ==
  [n \in EnvNames |-> IF n \in DOMAIN secrets THEN secrets[n] ELSE Unset]

\* for name, value in secrets.items():
\*     if not os.environ.get(name): os.environ[name] = value
load_secrets_environ(environment, secrets) ==
  [n \in EnvNames |->
     IF n \in DOMAIN secrets /\ ~Truthy(environment[n])
     THEN secrets[n] ELSE environment[n]]

\* `if not all([JIRA_TOKEN, ..., APPINSIGHTS_API_KEY]): raise ValueError`
all_required_set(environment) ==
  \A n \in SecretEnvNames : Truthy(environment[n])

\* The loader before load_secrets has run: its position, the locals of
\* get_required_secrets, and the history of the vault calls of this load.
Loader0 ==
  [pc |-> "unloaded", secrets |-> <<>>, missing_secrets |-> <<>>,
   secrets_to_fetch |-> <<>>, i |-> 1, attempt |-> 0, loads |-> 0,
   error |-> [type |-> "none", message |-> "none", names |-> <<>>],
   env0 |-> FullEnviron,
   trail |-> [n \in SecretNames |-> <<>>],
   raised |-> [n \in SecretNames |-> "none"]]

\* The loader of a process that serves requests.
LoaderServing == [Loader0 EXCEPT !.pc = "serving", !.loads = 1]

----------------------------------------------------------------------------
(* State *)

VARIABLES
  \* the table service: reachable or not, the table ExceptionTracking and
  \* its entities
  storeUp, tableExists, table,
  \* the tickets the tracker holds, in the order of their creation
  tickets,
  \* the module global table_client
  table_client,
  \* each server thread: where it is, and the locals of its pass
  pc, frame, response,
  \* exceptions fetched so far
  fetched,
  \* history: the store has had an outage or has lost its table, and how
  \* many times
  storeFaulted, faults,
  \* history: the timestamps mark_exception_processed was called with,
  \* and those it has returned for
  markCalled, markReturned,
  \* history of each thread's current pass, and of the pass completed last
  obs, prev,
  \* query_app_insights on its own: an input and what it gave
  qIn, qOut,
  \* os.environ, and load_secrets with its history
  environ, loader

vars == <<storeUp, tableExists, table, tickets, table_client, pc, frame,
          response, fetched, storeFaulted, faults, markCalled, markReturned,
          obs, prev, qIn, qOut, environ, loader>>

envVars == <<storeUp, tableExists, table, storeFaulted, faults>>

histVars == <<markCalled, markReturned, prev>>

queryVars == <<qIn, qOut>>

secretVars == <<environ, loader>>

\* waitress serves with threads=4; two are enough to race.
Threads == {1, 2}

Frame0 ==
  [exceptions |-> <<>>, row |-> 0, created |-> 0, skipped |-> 0,
   attempt |-> 0, caller |-> "none", client |-> None, processed |-> FALSE,
   jira_response |-> NoJson, retry_count |-> 0]

Obs0 ==
  [table0 |-> {}, client0 |-> None, posts |-> 0, made |-> 0,
   store_calls |-> 0, upserts |-> 0, written |-> <<>>, trace |-> <<>>,
   tracker_ok |-> TRUE, outage |-> FALSE, check_error |-> "none",
   raised |-> "none", answer |-> "unsent", upsert_error |-> "none",
   mark_upserts |-> 0, mark_end |-> "none"]

NoResponse == [kind |-> "none"]

NoPass ==
  [run |-> FALSE, rows |-> <<>>, made |-> 0, created |-> 0, skipped |-> 0,
   tracker_ok |-> TRUE, faulted |-> FALSE, marked0 |-> {}, written |-> 0]

\* The state once app.py has loaded: no connection yet, no pass run.  The
\* table may exist from an earlier run of the service.
InitApp ==
  /\ storeUp = TRUE
  /\ tableExists \in BOOLEAN
  /\ table = {}
  /\ tickets = <<>>
  /\ table_client = None
  /\ pc = [t \in Threads |-> "idle"]
  /\ frame = [t \in Threads |-> Frame0]
  /\ response = [t \in Threads |-> NoResponse]
  /\ fetched = 0
  /\ storeFaulted = FALSE
  /\ faults = 0
  /\ markCalled = {}
  /\ markReturned = {}
  /\ obs = [t \in Threads |-> Obs0]
  /\ prev = NoPass

NotRun == [kind |-> "none", value |-> <<>>]

Init ==
  /\ InitApp
  /\ qIn = [environ |-> StartedEnviron,
            resp |-> CHOOSE r \in Responses : ~r.sent]
  /\ qOut = NotRun
  /\ environ = FullEnviron
  /\ loader = LoaderServing

----------------------------------------------------------------------------
(* The environment: the table service *)

\* A thread is about to call the table service.  The service is seen only
\* through these calls, so its changes are taken at these moments.
AtStoreCall ==
  \E t \in Threads : pc[t] \in {"gtc_probe", "gtc_create", "query", "upsert"}

\* The service becomes unreachable.
StoreOutage ==
  /\ AtStoreCall
  /\ storeUp
  /\ faults < MaxFaults
  /\ storeUp' = FALSE
  /\ storeFaulted' = TRUE
  /\ faults' = faults + 1
  /\ UNCHANGED <<tableExists, table, tickets, table_client, pc, frame,
                 response, fetched, obs>>
  /\ UNCHANGED histVars /\ UNCHANGED queryVars /\ UNCHANGED secretVars

\* The service is reachable again; no pass has run wholly in the outage.
StoreRecover ==
  /\ AtStoreCall
  /\ ~storeUp
  /\ storeUp' = TRUE
  /\ obs' = [t \in Threads |-> [obs[t] EXCEPT !.outage = FALSE]]
  /\ UNCHANGED <<tableExists, table, storeFaulted, faults, tickets,
                 table_client, pc, frame, response, fetched>>
  /\ UNCHANGED histVars /\ UNCHANGED queryVars /\ UNCHANGED secretVars

\* The table is deleted from outside, and its entities with it.
DropTable ==
  /\ AtStoreCall
  /\ storeUp
  /\ tableExists
  /\ faults < MaxFaults
  /\ tableExists' = FALSE
  /\ table' = {}
  /\ storeFaulted' = TRUE
  /\ faults' = faults + 1
  /\ UNCHANGED <<storeUp, tickets, table_client, pc, frame, response, fetched,
                 obs>>
  /\ UNCHANGED histVars /\ UNCHANGED queryVars /\ UNCHANGED secretVars

----------------------------------------------------------------------------
(* manual_trigger: the start of a pass *)

Summary200(total, created, skipped) ==
  [kind |-> "summary", status |-> 200, total_exceptions |-> total,
   tickets_created |-> created, skipped |-> skipped, error |-> "none"]

Error500(e) ==
  [kind |-> "error", status |-> 500, total_exceptions |-> 0,
   tickets_created |-> 0, skipped |-> 0, error |-> e]

\* What a completed pass leaves in the history.
PassRecord(f, o) ==
  [run |-> TRUE, rows |-> f.exceptions, made |-> o.made,
   created |-> f.created, skipped |-> f.skipped,
   tracker_ok |-> o.tracker_ok, faulted |-> storeFaulted,
   marked0 |-> {e.OriginalTimestamp : e \in o.table0},
   written |-> Len(o.written)]

\* A pass that opens the store connection before it looks at the list.
pass_entry_connect_first(exceptions) == "gtc_for"

\* `if not exceptions: return jsonify(...zeros...)`, else the loop.
pass_entry(exceptions) ==
  IF exceptions = <<>> THEN "return_empty" ELSE "loop"

Trigger(t, responses, budget) ==
  /\ pc[t] = "idle"
  /\ \E resp \in responses :
       LET r == query_app_insights(StartedEnviron, resp)
           o == [Obs0 EXCEPT !.table0 = table, !.client0 = table_client,
                             !.outage = ~storeUp]
       IN IF r.kind = "raise"
          THEN \* the outer except Exception: 500 with str(e)
               /\ response' = [response EXCEPT ![t] = Error500(r.value)]
               /\ UNCHANGED <<pc, frame, obs, fetched>>
          ELSE /\ fetched + Len(r.value) <= budget
               /\ fetched' = fetched + Len(r.value)
               /\ response' = [response EXCEPT ![t] = NoResponse]
               /\ frame' = [frame EXCEPT ![t] =
                              [Frame0 EXCEPT !.exceptions = r.value, !.row = 1]]
               /\ obs' = [obs EXCEPT ![t] = o]
               /\ pc' = [pc EXCEPT ![t] = pass_entry(r.value)]
  /\ UNCHANGED <<tickets, table_client>>
  /\ UNCHANGED envVars /\ UNCHANGED histVars
  /\ UNCHANGED queryVars /\ UNCHANGED secretVars

\* POST /trigger with any answer of the telemetry backend.
ManualTrigger(t) == Trigger(t, Responses, MaxFetched)

\* return jsonify({... "total_exceptions": 0, "tickets_created": 0,
\* "skipped": 0})
ReturnEmpty(t) ==
  /\ pc[t] = "return_empty"
  /\ response' = [response EXCEPT ![t] = Summary200(0, 0, 0)]
  /\ prev' = PassRecord(frame[t], obs[t])
  /\ frame' = [frame EXCEPT ![t] = Frame0]
  /\ obs' = [obs EXCEPT ![t] = Obs0]
  /\ pc' = [pc EXCEPT ![t] = "idle"]
  /\ UNCHANGED <<tickets, table_client, fetched, markCalled, markReturned>>
  /\ UNCHANGED envVars /\ UNCHANGED queryVars /\ UNCHANGED secretVars

\* {"total_exceptions": len(exceptions), "tickets_created": created,
\*  "skipped": skipped}
SummaryOf(f) == Summary200(Len(f.exceptions), f.created, f.skipped)

\* return jsonify({"status": "completed", "summary": ...})
ReturnSummary(t) ==
  /\ pc[t] = "return_summary"
  /\ response' = [response EXCEPT ![t] = SummaryOf(frame[t])]
  /\ prev' = PassRecord(frame[t], obs[t])
  /\ frame' = [frame EXCEPT ![t] = Frame0]
  /\ obs' = [obs EXCEPT ![t] = Obs0]
  /\ pc' = [pc EXCEPT ![t] = "idle"]
  /\ UNCHANGED <<tickets, table_client, fetched, markCalled, markReturned>>
  /\ UNCHANGED envVars /\ UNCHANGED queryVars /\ UNCHANGED secretVars

\* GET /appget: the query alone.
AppGet(t) ==
  /\ pc[t] = "idle"
  /\ \E resp \in Responses :
       LET r == query_app_insights(StartedEnviron, resp)
       IN response' = [response EXCEPT ![t] =
            IF r.kind = "raise" THEN Error500(r.value)
            ELSE [kind |-> "appget", status |-> 200,
                  total_exceptions |-> Len(r.value), tickets_created |-> 0,
                  skipped |-> 0, error |-> "none"]]
  /\ UNCHANGED <<tickets, table_client, pc, frame, fetched, obs>>
  /\ UNCHANGED envVars /\ UNCHANGED histVars
  /\ UNCHANGED queryVars /\ UNCHANGED secretVars

Row(t) == frame[t].exceptions[frame[t].row]

\* `for row in exceptions:` with the next record, or the summary at the end.
Loop(t) ==
  /\ pc[t] = "loop"
  /\ LET f == frame[t]
     IN IF f.row <= Len(f.exceptions)
        THEN \* is_exception_processed(problem_id, timestamp) calls
             \* get_table_client()
             /\ frame' = [frame EXCEPT ![t].caller = "check", ![t].attempt = 0]
             /\ obs' = [obs EXCEPT ![t].check_error = "none",
                                   ![t].raised = "none",
                                   ![t].answer = "unsent",
                                   ![t].upsert_error = "none",
                                   ![t].mark_upserts = 0,
                                   ![t].mark_end = "none"]
             /\ pc' = [pc EXCEPT ![t] = "gtc_for"]
        ELSE /\ pc' = [pc EXCEPT ![t] = "return_summary"]
             /\ UNCHANGED <<frame, obs>>
  /\ UNCHANGED <<tickets, table_client, response, fetched>>
  /\ UNCHANGED envVars /\ UNCHANGED histVars
  /\ UNCHANGED queryVars /\ UNCHANGED secretVars

----------------------------------------------------------------------------
(* get_table_client *)

Handle == "TableClient"

\* table_service.create_table(TABLE_NAME)
create_table(up, exists) ==
  IF ~up THEN Raised("HttpResponseError")
  ELSE IF exists THEN Raised("ResourceExistsError")
  ELSE Returned(TRUE)

\* try: create_table  except ResourceExistsError: (already exists)
create_table_if_missing(up, exists) ==
  LET r == create_table(up, exists)
  IN IF r.kind = "raise" /\ r.value = "ResourceExistsError"
     THEN Returned(FALSE)
     ELSE r

\* get_table_client that returns the cached client without the probe.
probe_skipped(global_client, up, exists) ==
  IF global_client = None THEN Raised("AttributeError") ELSE Returned(TRUE)

\* list(table_client.list_entities(select=['PartitionKey']).take(1)) on
\* the global as it is now
probe(global_client, up, exists) ==
  IF global_client = None THEN Raised("AttributeError")
  ELSE IF ~up THEN Raised("HttpResponseError")
  ELSE IF ~exists THEN Raised("ResourceNotFoundError")
  ELSE Returned(TRUE)

\* Where a thread goes when get_table_client returns to its caller.
AfterGetTableClient(caller) ==
  CASE caller = "check" -> "query"
    [] caller = "mark" -> "upsert"
    [] OTHER -> "loop"

\* is_exception_processed that lets an exception through.
is_exception_processed_except_none(outcome) == outcome

\* is_exception_processed, the outer `except Exception: return False`
is_exception_processed_except(outcome) ==
  IF outcome.kind = "raise" THEN Returned(FALSE) ELSE outcome

\* mark_exception_processed that lets an exception through to the loop.
mark_exception_processed_reraise(outcome) == outcome

\* mark_exception_processed, the outer `except Exception:` which prints
\* and returns
mark_exception_processed_except(outcome) ==
  IF outcome.kind = "raise" THEN Returned("error") ELSE outcome

\* `for attempt in range(MAX_RETRIES)`, `if table_client is not None`, and
\* the ConnectionError after the last attempt.
GtcFor(t) ==
  /\ pc[t] = "gtc_for"
  /\ LET f == frame[t]
     IN IF f.attempt < MAX_RETRIES
        THEN /\ pc' = [pc EXCEPT ![t] =
                         IF table_client # None THEN "gtc_probe"
                         ELSE "gtc_create"]
             /\ UNCHANGED <<frame, obs, response>>
        ELSE IF f.caller = "check"
        THEN LET r == is_exception_processed_except(Raised("ConnectionError"))
             IN /\ frame' = [frame EXCEPT ![t].processed =
                               IF r.kind = "return" THEN r.value ELSE FALSE]
                /\ obs' = [obs EXCEPT ![t].check_error = "ConnectionError",
                                      ![t].raised =
                                        IF r.kind = "raise"
                                        THEN "is_exception_processed"
                                        ELSE "none"]
                /\ pc' = [pc EXCEPT ![t] =
                            IF r.kind = "return" THEN "checked" ELSE "except"]
                /\ UNCHANGED response
        ELSE IF f.caller = "mark"
        THEN LET r == mark_exception_processed_except(Raised("ConnectionError"))
             IN /\ obs' = [obs EXCEPT ![t].mark_end = "ConnectionError",
                                      ![t].raised =
                                        IF r.kind = "raise"
                                        THEN "mark_exception_processed"
                                        ELSE "none"]
                /\ pc' = [pc EXCEPT ![t] =
                            IF r.kind = "return" THEN "marked" ELSE "except"]
                /\ UNCHANGED <<frame, response>>
        ELSE \* raised into manual_trigger itself: its outer except
             /\ response' = [response EXCEPT ![t] = Error500("ConnectionError")]
             /\ pc' = [pc EXCEPT ![t] = "idle"]
             /\ frame' = [frame EXCEPT ![t] = Frame0]
             /\ obs' = [obs EXCEPT ![t] = Obs0]
  /\ UNCHANGED <<tickets, table_client, fetched>>
  /\ UNCHANGED envVars /\ UNCHANGED histVars
  /\ UNCHANGED queryVars /\ UNCHANGED secretVars

\* The probe of the cached client.
GtcProbe(t) ==
  /\ pc[t] = "gtc_probe"
  /\ LET r == probe(table_client, storeUp, tableExists)
     IN /\ pc' = [pc EXCEPT ![t] =
                    IF r.kind = "return" THEN "gtc_return" ELSE "gtc_except"]
        /\ obs' = [obs EXCEPT ![t].store_calls =
                     IF table_client # None THEN @ + 1 ELSE @]
  /\ UNCHANGED <<tickets, table_client, frame, response, fetched>>
  /\ UNCHANGED envVars /\ UNCHANGED histVars
  /\ UNCHANGED queryVars /\ UNCHANGED secretVars

\* TableServiceClient.from_connection_string and create_table.
GtcCreate(t) ==
  /\ pc[t] = "gtc_create"
  /\ LET r == create_table_if_missing(storeUp, tableExists)
     IN /\ pc' = [pc EXCEPT ![t] =
                    IF r.kind = "return" THEN "gtc_assign" ELSE "gtc_except"]
        /\ tableExists' = (tableExists \/ (r.kind = "return" /\ r.value))
  /\ obs' = [obs EXCEPT ![t].store_calls = @ + 1]
  /\ UNCHANGED <<storeUp, table, storeFaulted, faults, tickets, table_client,
                 frame, response, fetched>>
  /\ UNCHANGED histVars /\ UNCHANGED queryVars /\ UNCHANGED secretVars

\* table_client = table_service.get_table_client(TABLE_NAME)
GtcAssign(t) ==
  /\ pc[t] = "gtc_assign"
  /\ table_client' = Handle
  /\ pc' = [pc EXCEPT ![t] = "gtc_return"]
  /\ UNCHANGED <<tickets, frame, response, fetched, obs>>
  /\ UNCHANGED envVars /\ UNCHANGED histVars
  /\ UNCHANGED queryVars /\ UNCHANGED secretVars

\* `return table_client`: the global as it is at the return.
GtcReturn(t) ==
  /\ pc[t] = "gtc_return"
  /\ frame' = [frame EXCEPT ![t].client = table_client]
  /\ pc' = [pc EXCEPT ![t] = AfterGetTableClient(frame[t].caller)]
  /\ UNCHANGED <<tickets, table_client, response, fetched, obs>>
  /\ UNCHANGED envVars /\ UNCHANGED histVars
  /\ UNCHANGED queryVars /\ UNCHANGED secretVars

\* except Exception: log, sleep, table_client = None; the next attempt.
GtcExcept(t) ==
  /\ pc[t] = "gtc_except"
  /\ table_client' = None
  /\ frame' = [frame EXCEPT ![t].attempt = @ + 1]
  /\ pc' = [pc EXCEPT ![t] = "gtc_for"]
  /\ UNCHANGED <<tickets, response, fetched, obs>>
  /\ UNCHANGED envVars /\ UNCHANGED histVars
  /\ UNCHANGED queryVars /\ UNCHANGED secretVars

----------------------------------------------------------------------------
(* is_exception_processed *)

\* A call on the table: what the service raises when it is down or the
\* table is gone.
StoreError(up, exists) ==
  IF ~up THEN "HttpResponseError"
  ELSE IF ~exists THEN "ResourceNotFoundError"
  ELSE "none"

\* The except clauses of the inner try.  The first one names
\* azure.core.exceptions.ResourceNotFoundError: evaluating it raises
\* NameError when `azure` is unbound, and so does the call of
\* ensure_table_exists; either leaves the inner try.
query_except(error) ==
  IF ~azure_bound THEN Raised("NameError")
  ELSE IF error = "ResourceNotFoundError"
       THEN IF ensure_table_exists_defined THEN Returned(FALSE)
            ELSE Raised("NameError")
       ELSE Returned(FALSE)

\* A lookup by problem id, which no marker has as its row key.
is_processed_lookup_by_problem_id(rows, problem_id, timestamp) ==
  query_entities(rows, problem_id) # {}

\* next(client.query_entities(f"RowKey eq '{row_key}'"), None) is not None
is_processed_lookup(rows, problem_id, timestamp) ==
  query_entities(rows, row_key_of(timestamp)) # {}

\* is_exception_processed once get_table_client has returned client.
is_exception_processed(client, up, exists, rows, problem_id, timestamp) ==
  IF client = None THEN Returned(FALSE)
  ELSE is_exception_processed_except(
         IF StoreError(up, exists) # "none"
         THEN query_except(StoreError(up, exists))
         ELSE Returned(is_processed_lookup(rows, problem_id, timestamp)))

\* A loop that stays on the record it has just handled.
Done_same_record(f, o, what) ==
  [frame |-> f, obs |-> [o EXCEPT !.trace = Append(@, what)]]

\* The tail of manual_trigger's loop body: on to the next record.
Done(f, o, what) ==
  [frame |-> [f EXCEPT !.row = @ + 1],
   obs |-> [o EXCEPT !.trace = Append(@, what)]]

Query(t) ==
  /\ pc[t] = "query"
  /\ LET f == frame[t]
         r == is_exception_processed(f.client, storeUp, tableExists, table,
                                     Row(t)[2], Row(t)[1])
     IN /\ frame' = [frame EXCEPT ![t].processed =
                       IF r.kind = "return" THEN r.value ELSE FALSE]
        /\ obs' = [obs EXCEPT
                     ![t].store_calls = IF f.client # None THEN @ + 1 ELSE @,
                     ![t].check_error =
                       IF f.client = None THEN "no_client"
                       ELSE StoreError(storeUp, tableExists),
                     ![t].raised = IF r.kind = "raise"
                                   THEN "is_exception_processed" ELSE "none"]
        /\ pc' = [pc EXCEPT ![t] =
                    IF r.kind = "return" THEN "checked" ELSE "except"]
  /\ UNCHANGED <<tickets, table_client, response, fetched>>
  /\ UNCHANGED envVars /\ UNCHANGED histVars
  /\ UNCHANGED queryVars /\ UNCHANGED secretVars

\* `if is_exception_processed(...): skipped += 1; continue`
Checked(t) ==
  /\ pc[t] = "checked"
  /\ IF frame[t].processed
     THEN LET d == Done([frame[t] EXCEPT !.skipped = @ + 1], obs[t], "skipped")
          IN /\ frame' = [frame EXCEPT ![t] = d.frame]
             /\ obs' = [obs EXCEPT ![t] = d.obs]
             /\ pc' = [pc EXCEPT ![t] = "loop"]
     ELSE /\ pc' = [pc EXCEPT ![t] = "post"]
          /\ UNCHANGED <<frame, obs>>
  /\ UNCHANGED <<tickets, table_client, response, fetched>>
  /\ UNCHANGED envVars /\ UNCHANGED histVars
  /\ UNCHANGED queryVars /\ UNCHANGED secretVars

----------------------------------------------------------------------------
(* create_jira_issue, and the per-record handler of manual_trigger *)

\* The tracker creates the ticket it answers 2xx-with-key for.
TicketMade(answer) ==
  answer.sent /\ answer.status = "2xx" /\ answer.body = "key"

\* `if jira_response and 'key' in jira_response:` mark_exception_processed
Post(t) ==
  /\ pc[t] = "post"
  /\ \E answer \in JiraAnswers :
       LET key == Len(tickets) + 1
           r == create_jira_issue(answer, key)
           o == [obs[t] EXCEPT !.posts = @ + 1,
                               !.answer = answer.status,
                               !.made = IF TicketMade(answer) THEN @ + 1 ELSE @,
                               !.tracker_ok = @ /\ TicketMade(answer)]
       IN /\ tickets' = IF TicketMade(answer)
                        THEN Append(tickets,
                               [key |-> key,
                                summary |-> Summary(Row(t)[2], Row(t)[1])])
                        ELSE tickets
          /\ IF r.kind = "raise"
             THEN /\ obs' = [obs EXCEPT ![t] =
                               [o EXCEPT !.raised = "create_jira_issue"]]
                  /\ pc' = [pc EXCEPT ![t] = "except"]
                  /\ UNCHANGED <<frame, markCalled>>
             ELSE IF r.value.has_key
             THEN \* mark_exception_processed calls get_table_client()
                  /\ frame' = [frame EXCEPT ![t].jira_response = r.value,
                                            ![t].caller = "mark",
                                            ![t].attempt = 0,
                                            ![t].retry_count = 0]
                  /\ markCalled' = markCalled \cup {Row(t)[1]}
                  /\ obs' = [obs EXCEPT ![t] = o]
                  /\ pc' = [pc EXCEPT ![t] = "gtc_for"]
             ELSE LET d == Done(frame[t], o, "no_key")
                  IN /\ frame' = [frame EXCEPT ![t] = d.frame]
                     /\ obs' = [obs EXCEPT ![t] = d.obs]
                     /\ pc' = [pc EXCEPT ![t] = "loop"]
                     /\ UNCHANGED markCalled
  /\ UNCHANGED <<table_client, response, fetched, markReturned, prev>>
  /\ UNCHANGED envVars /\ UNCHANGED queryVars /\ UNCHANGED secretVars

\* A loop without the per-record try: the exception ends the pass.
on_record_error_abort == "abort"

\* `except Exception as e: print(...); continue`
on_record_error == "continue"

Except(t) ==
  /\ pc[t] = "except"
  /\ IF on_record_error = "continue"
     THEN LET d == Done(frame[t], obs[t], "failed")
          IN /\ frame' = [frame EXCEPT ![t] = d.frame]
             /\ obs' = [obs EXCEPT ![t] = d.obs]
             /\ pc' = [pc EXCEPT ![t] = "loop"]
             /\ UNCHANGED response
     ELSE /\ response' = [response EXCEPT ![t] = Error500(obs[t].raised)]
          /\ pc' = [pc EXCEPT ![t] = "idle"]
          /\ frame' = [frame EXCEPT ![t] = Frame0]
          /\ obs' = [obs EXCEPT ![t] = Obs0]
  /\ UNCHANGED <<tickets, table_client, fetched>>
  /\ UNCHANGED envVars /\ UNCHANGED histVars
  /\ UNCHANGED queryVars /\ UNCHANGED secretVars

----------------------------------------------------------------------------
(* mark_exception_processed *)

\* The except clauses of the upsert loop: "retry" is retry_count += 1 and
\* the next turn of the loop.  As in is_exception_processed, the first
\* clause cannot be evaluated while `azure` is unbound.
upsert_except(error) ==
  IF ~azure_bound THEN Raised("NameError")
  ELSE IF error = "ResourceNotFoundError"
       THEN IF ensure_table_exists_defined THEN Returned("retry")
            ELSE Raised("NameError")
       ELSE Returned("retry")

\* A marker keyed by the problem id.
mark_entity_by_problem_id(problem_id, timestamp, jira_key) ==
  [Entity(problem_id, timestamp, jira_key) EXCEPT !.RowKey = problem_id]

\* entity = {'PartitionKey': 'exceptions', 'RowKey': row_key, ...}
mark_entity(problem_id, timestamp, jira_key) ==
  Entity(problem_id, timestamp, jira_key)

\* A write that adds a row whatever the table holds.
mark_write_insert(rows, entity) == rows \cup {entity}

\* client.upsert_entity(entity=entity)
mark_write(rows, entity) == upsert_entity(rows, entity)

\* `if not client: return`, then the loop `while retry_count < max_retries`
\* around the upsert; one attempt is one step.
Upsert(t) ==
  /\ pc[t] = "upsert"
  /\ LET f == frame[t]
         err == StoreError(storeUp, tableExists)
         r == mark_exception_processed_except(upsert_except(err))
     IN IF f.client = None
        THEN /\ obs' = [obs EXCEPT ![t].mark_end = "no_client"]
             /\ pc' = [pc EXCEPT ![t] = "marked"]
             /\ UNCHANGED <<frame, table>>
        ELSE IF f.retry_count >= max_retries
        THEN /\ obs' = [obs EXCEPT ![t].mark_end = "gave_up"]
             /\ pc' = [pc EXCEPT ![t] = "marked"]
             /\ UNCHANGED <<frame, table>>
        ELSE IF err = "none"
        THEN /\ table' = mark_write(table,
                           mark_entity(Row(t)[2], Row(t)[1], f.jira_response.key))
             /\ obs' = [obs EXCEPT ![t].mark_end = "written",
                                   ![t].written = Append(@,
                                     mark_entity(Row(t)[2], Row(t)[1],
                                                 f.jira_response.key)),
                                   ![t].upserts = @ + 1,
                                   ![t].mark_upserts = @ + 1,
                                   ![t].store_calls = @ + 1]
             /\ pc' = [pc EXCEPT ![t] = "marked"]
             /\ UNCHANGED frame
        ELSE /\ obs' = [obs EXCEPT
                          ![t].upsert_error = err,
                          ![t].upserts = @ + 1,
                          ![t].mark_upserts = @ + 1,
                          ![t].store_calls = @ + 1,
                          ![t].mark_end =
                            IF r.kind = "return" /\ r.value = "error"
                            THEN "error" ELSE @,
                          ![t].raised = IF r.kind = "raise"
                                        THEN "mark_exception_processed"
                                        ELSE @]
             /\ frame' = [frame EXCEPT ![t].retry_count =
                            IF r.kind = "return" /\ r.value = "retry"
                            THEN @ + 1 ELSE @]
             /\ pc' = [pc EXCEPT ![t] =
                         IF r.kind = "raise" THEN "except"
                         ELSE IF r.value = "retry" THEN "upsert"
                         ELSE "marked"]
             /\ UNCHANGED table
  /\ UNCHANGED <<storeUp, tableExists, storeFaulted, faults, tickets,
                 table_client, response, fetched>>
  /\ UNCHANGED histVars /\ UNCHANGED queryVars /\ UNCHANGED secretVars

\* mark_exception_processed has returned: `created += 1`
Marked(t) ==
  /\ pc[t] = "marked"
  /\ LET d == Done([frame[t] EXCEPT !.created = @ + 1], obs[t], "created")
     IN /\ frame' = [frame EXCEPT ![t] = d.frame]
        /\ obs' = [obs EXCEPT ![t] = d.obs]
  /\ markReturned' = markReturned \cup {Row(t)[1]}
  /\ pc' = [pc EXCEPT ![t] = "loop"]
  /\ UNCHANGED <<tickets, table_client, response, fetched, markCalled, prev>>
  /\ UNCHANGED envVars /\ UNCHANGED queryVars /\ UNCHANGED secretVars

----------------------------------------------------------------------------
(* Specifications *)

\* One request at a time: the passes of one server thread, one after the
\* other, with the table service failing and recovering around them.
Serial == {1}

Next ==
  \/ StoreOutage
  \/ StoreRecover
  \/ DropTable
  \/ \E t \in Serial : ManualTrigger(t)
  \/ \E t \in Serial : ReturnEmpty(t)
  \/ \E t \in Serial : ReturnSummary(t)
  \/ \E t \in Serial : AppGet(t)
  \/ \E t \in Serial : Loop(t)
  \/ \E t \in Serial : GtcFor(t)
  \/ \E t \in Serial : GtcProbe(t)
  \/ \E t \in Serial : GtcCreate(t)
  \/ \E t \in Serial : GtcAssign(t)
  \/ \E t \in Serial : GtcReturn(t)
  \/ \E t \in Serial : GtcExcept(t)
  \/ \E t \in Serial : Query(t)
  \/ \E t \in Serial : Checked(t)
  \/ \E t \in Serial : Post(t)
  \/ \E t \in Serial : Except(t)
  \/ \E t \in Serial : Upsert(t)
  \/ \E t \in Serial : Marked(t)

Spec == Init /\ [][Next]_vars

\* query_app_insights on its own, on every environment and every answer.
QueryInputs == [environ : [APPINSIGHTS_APP_ID : BOOLEAN,
                           APPINSIGHTS_API_KEY : BOOLEAN],
                resp : Responses]

InitQuery ==
  /\ InitApp
  /\ qIn \in QueryInputs
  /\ qOut = NotRun
  /\ environ = FullEnviron
  /\ loader = LoaderServing

RunQuery ==
  /\ qOut = NotRun
  /\ qOut' = query_app_insights(qIn.environ, qIn.resp)
  /\ UNCHANGED <<storeUp, tableExists, table, tickets, table_client, pc,
                 frame, response, fetched, storeFaulted, faults, markCalled,
                 markReturned, obs, prev, qIn, environ, loader>>

NextQuery == RunQuery

SpecQuery == InitQuery /\ [][NextQuery]_vars

----------------------------------------------------------------------------
(* load_secrets at module load, one vault call a step *)

appVars == <<storeUp, tableExists, table, tickets, table_client, pc, frame,
             response, fetched, storeFaulted, faults, markCalled,
             markReturned, obs, prev>>

ValueError(message, names) ==
  [type |-> "ValueError", message |-> message, names |-> names]

\* load_secrets up to the first vault call: the vault name, the client
\* (whose constructor tests the credential and may raise), and the scan of
\* the environment in get_required_secrets.
LoadSecrets ==
  /\ loader.pc \in {"unloaded", "loaded"}
  /\ loader.loads < MaxLoads
  /\ \E client_ok \in BOOLEAN :
       LET l == [Loader0 EXCEPT !.loads = loader.loads, !.env0 = environ]
           fetch == secrets_to_fetch(environ)
       IN loader' =
            IF ~Truthy(environ["AZURE_VAULT_NAME"])
            THEN [l EXCEPT !.pc = "failed",
                           !.error = ValueError(
                             "AZURE_VAULT_NAME environment variable is not set",
                             <<>>)]
            ELSE IF ~client_ok
            THEN [l EXCEPT !.pc = "failed",
                           !.error = [type |-> "Exception",
                                      message |-> "Key Vault client",
                                      names |-> <<>>]]
            ELSE [l EXCEPT !.secrets = secrets_from_environ(environ),
                           !.secrets_to_fetch = fetch,
                           !.pc = IF fetch = <<>> THEN "resolved" ELSE "fetch"]
  /\ UNCHANGED environ
  /\ UNCHANGED appVars /\ UNCHANGED queryVars

\* A loop over secrets_to_fetch that ends at the first secret it cannot get.
next_after_error_stop(i, n) == n + 1

\* `except ResourceNotFoundError` / `except Exception`: the secret is
\* recorded missing and the loop goes on with the next one.
next_after_error(i, n) == i + 1

\* One self.secret_client.get_secret(secret_name) and what
\* _get_secret_with_retry and the loop of get_required_secrets make of it.
GetSecret ==
  /\ loader.pc = "fetch"
  /\ \E answer \in VaultAnswers :
       LET l == loader
           n == Len(l.secrets_to_fetch)
           secret_name == l.secrets_to_fetch[l.i]
           name == Join(secret_name)
           r == get_secret_attempt(answer, l.attempt, name)
           called == [l EXCEPT !.trail[name] = Append(@, answer)]
           next(j) == IF j > n THEN "resolved" ELSE "fetch"
       IN loader' =
            IF r.kind = "raise"
            THEN [called EXCEPT
                    !.missing_secrets = Append(@, name),
                    !.raised[name] = r.value,
                    !.i = next_after_error(l.i, n),
                    !.attempt = 0,
                    !.pc = next(next_after_error(l.i, n))]
            ELSE IF r.value = "<retry>"
            THEN [called EXCEPT !.attempt = @ + 1]
            ELSE [called EXCEPT
                    !.secrets = (env_name(secret_name) :> r.value) @@ @,
                    !.i = @ + 1,
                    !.attempt = 0,
                    !.pc = next(l.i + 1)]
  /\ UNCHANGED environ
  /\ UNCHANGED appVars /\ UNCHANGED queryVars

\* The end of get_required_secrets (raise ValueError naming the missing
\* secrets, or return secrets) and the rest of load_secrets.
Resolve ==
  /\ loader.pc = "resolved"
  /\ IF loader.missing_secrets # <<>>
     THEN /\ loader' = [loader EXCEPT
                          !.pc = "failed",
                          !.error = ValueError("Missing required secrets",
                                               loader.missing_secrets)]
          /\ UNCHANGED environ
     ELSE /\ environ' = load_secrets_environ(environ, loader.secrets)
          /\ loader' = [loader EXCEPT !.pc = "loaded", !.loads = @ + 1]
  /\ UNCHANGED appVars /\ UNCHANGED queryVars

\* Lines 65-75: the module reads its settings and refuses to go on without
\* one of them; then the routes are registered and the server starts.
StartServing ==
  /\ loader.pc = "loaded"
  /\ loader' =
       IF all_required_set(environ)
       THEN [loader EXCEPT !.pc = "serving"]
       ELSE [loader EXCEPT
               !.pc = "failed",
               !.error = ValueError("Missing required environment variables",
                                    <<>>)]
  /\ UNCHANGED environ
  /\ UNCHANGED appVars /\ UNCHANGED queryVars

NextSecrets == LoadSecrets \/ GetSecret \/ Resolve \/ StartServing

InitSecrets ==
  /\ InitApp /\ tableExists
  /\ qIn = [environ |-> StartedEnviron,
            resp |-> CHOOSE r \in Responses : ~r.sent]
  /\ qOut = NotRun
  /\ environ \in Environs
  /\ loader = [Loader0 EXCEPT !.env0 = environ]

SpecSecrets == InitSecrets /\ [][NextSecrets]_vars

----------------------------------------------------------------------------
(* Exceptions in the route handlers *)

\* str(e) of an exception a statement of a handler may raise, such as the
\* OSError of a print to a closed pipe.
ExceptionTexts == {"[Errno 32] Broken pipe"}

\* handle_exception: the errorhandler(Exception) of the application.
handle_exception(e) ==
  [kind |-> "unhandled", status |-> 500, total_exceptions |-> 0,
   tickets_created |-> 0, skipped |-> 0, error |-> "Internal server error"]

\* manual_trigger: `except Exception as e: return jsonify({"status":
\* "error", "error": str(e)}), 500`
manual_trigger_except(e) == Error500(e)

\* get_app_insights_data: `except Exception as e: return jsonify({"error":
\* str(e), "count": 0, ...}), 500`
get_app_insights_data_except(e) == Error500(e)

\* A statement of manual_trigger outside the per-record try raises: the
\* print after the query, or the jsonify of the answer.
TriggerRaises(t) ==
  /\ pc[t] \in {"return_empty", "return_summary"}
  /\ \E e \in ExceptionTexts :
       response' = [response EXCEPT ![t] = manual_trigger_except(e)]
  /\ prev' = PassRecord(frame[t], obs[t])
  /\ pc' = [pc EXCEPT ![t] = "idle"]
  /\ frame' = [frame EXCEPT ![t] = Frame0]
  /\ obs' = [obs EXCEPT ![t] = Obs0]
  /\ UNCHANGED <<tickets, table_client, fetched, markCalled, markReturned>>
  /\ UNCHANGED envVars /\ UNCHANGED queryVars /\ UNCHANGED secretVars

\* A statement inside the try of get_app_insights_data raises.
AppGetRaises(t) ==
  /\ pc[t] = "idle"
  /\ \E e \in ExceptionTexts :
       response' = [response EXCEPT ![t] = get_app_insights_data_except(e)]
  /\ UNCHANGED <<tickets, table_client, pc, frame, fetched, obs>>
  /\ UNCHANGED envVars /\ UNCHANGED histVars
  /\ UNCHANGED queryVars /\ UNCHANGED secretVars

\* A statement outside every try raises (the print on line 383,
\* before_request): Flask hands the exception to handle_exception.
UnhandledRaises(t) ==
  /\ pc[t] = "idle"
  /\ \E e \in ExceptionTexts :
       response' = [response EXCEPT ![t] = handle_exception(e)]
  /\ UNCHANGED <<tickets, table_client, pc, frame, fetched, obs>>
  /\ UNCHANGED envVars /\ UNCHANGED histVars
  /\ UNCHANGED queryVars /\ UNCHANGED secretVars

\* The passes of one thread with the table service up, and the exceptions
\* a handler may meet.
NextRaising ==
  \/ \E t \in Serial : ManualTrigger(t)
  \/ \E t \in Serial : ReturnEmpty(t)
  \/ \E t \in Serial : ReturnSummary(t)
  \/ \E t \in Serial : AppGet(t)
  \/ \E t \in Serial : Loop(t)
  \/ \E t \in Serial : GtcFor(t)
  \/ \E t \in Serial : GtcProbe(t)
  \/ \E t \in Serial : GtcCreate(t)
  \/ \E t \in Serial : GtcAssign(t)
  \/ \E t \in Serial : GtcReturn(t)
  \/ \E t \in Serial : Query(t)
  \/ \E t \in Serial : Checked(t)
  \/ \E t \in Serial : Post(t)
  \/ \E t \in Serial : Except(t)
  \/ \E t \in Serial : Upsert(t)
  \/ \E t \in Serial : Marked(t)
  \/ \E t \in Serial : TriggerRaises(t)
  \/ \E t \in Serial : AppGetRaises(t)
  \/ \E t \in Serial : UnhandledRaises(t)

SpecRaising == Init /\ [][NextRaising]_vars

----------------------------------------------------------------------------
(* Concurrent passes: the threads of the server *)

\* Passes in one behaviour of the concurrent specification, each over the
\* one exception the backend holds.
MaxRacePasses == 3

\* The backend holds one exception and answers every query with it.
RaceResponses ==
  {[sent |-> TRUE, status |-> 200, json |-> TRUE, keys |-> {"tables"},
    tables |-> <<TableOf(<<"timestamp", "problemId", "type", "outerMessage",
                           "customDimensions">>,
                         <<BackendRecord(T1, "P1")>>)>>]}

\* POST /trigger on thread t while other threads may be in a pass.
RaceTrigger(t) == Trigger(t, RaceResponses, MaxRacePasses)

\* The passes of the server's threads, interleaved, the table service up.
NextConcurrent ==
  \/ \E t \in Threads : RaceTrigger(t)
  \/ \E t \in Threads : ReturnSummary(t)
  \/ \E t \in Threads : Loop(t)
  \/ \E t \in Threads : GtcFor(t)
  \/ \E t \in Threads : GtcProbe(t)
  \/ \E t \in Threads : GtcCreate(t)
  \/ \E t \in Threads : GtcAssign(t)
  \/ \E t \in Threads : GtcReturn(t)
  \/ \E t \in Threads : Query(t)
  \/ \E t \in Threads : Checked(t)
  \/ \E t \in Threads : Post(t)
  \/ \E t \in Threads : Except(t)
  \/ \E t \in Threads : Upsert(t)
  \/ \E t \in Threads : Marked(t)

SpecConcurrent == Init /\ [][NextConcurrent]_vars

\* POST /trigger on thread t, within the budget of the serial specification.
FaultyRaceTrigger(t) == Trigger(t, RaceResponses, MaxFetched)

\* The same passes with a table service that fails, recovers and loses its
\* table while they run.
NextConcurrentFaulty ==
  \/ StoreOutage
  \/ StoreRecover
  \/ DropTable
  \/ \E t \in Threads : FaultyRaceTrigger(t)
  \/ \E t \in Threads : ReturnSummary(t)
  \/ \E t \in Threads : Loop(t)
  \/ \E t \in Threads : GtcFor(t)
  \/ \E t \in Threads : GtcProbe(t)
  \/ \E t \in Threads : GtcCreate(t)
  \/ \E t \in Threads : GtcAssign(t)
  \/ \E t \in Threads : GtcReturn(t)
  \/ \E t \in Threads : GtcExcept(t)
  \/ \E t \in Threads : Query(t)
  \/ \E t \in Threads : Checked(t)
  \/ \E t \in Threads : Post(t)
  \/ \E t \in Threads : Except(t)
  \/ \E t \in Threads : Upsert(t)
  \/ \E t \in Threads : Marked(t)

SpecConcurrentFaulty == Init /\ [][NextConcurrentFaulty]_vars


----------------------------------------------------------------------------
(* A pass that is never left waiting: every call it makes returns or raises *)

\* One step of a request on thread t: a call returns or raises, or the
\* handler moves on.
PassStep(t) ==
  \/ ReturnEmpty(t)
  \/ ReturnSummary(t)
  \/ Loop(t)
  \/ GtcFor(t)
  \/ GtcProbe(t)
  \/ GtcCreate(t)
  \/ GtcAssign(t)
  \/ GtcReturn(t)
  \/ GtcExcept(t)
  \/ Query(t)
  \/ Checked(t)
  \/ Post(t)
  \/ Except(t)
  \/ Upsert(t)
  \/ Marked(t)

\* Each call a pass makes returns or raises, and the server thread keeps
\* running the request it has taken.
Fairness == \A t \in Serial : WF_vars(PassStep(t))

\* POST /trigger once: the one pass of a behaviour.
OnePass(t) == ~prev.run /\ Trigger(t, Responses, MaxFetched)

NextTerminates ==
  \/ StoreOutage
  \/ StoreRecover
  \/ DropTable
  \/ \E t \in Serial : OnePass(t)
  \/ \E t \in Serial : PassStep(t)

SpecTerminates == Init /\ [][NextTerminates]_vars /\ Fairness

----------------------------------------------------------------------------
(* Properties *)

\* Two timestamps of the same calendar second.
SameSecond(a, b) ==
  [parse(a) EXCEPT !.fraction = <<>>] = [parse(b) EXCEPT !.fraction = <<>>]

\* The pass of thread t has handled all its records.
AtSummary(t) == pc[t] = "return_summary"

\* C1: while the table service has not failed, is_exception_processed
\* answers false for a timestamp when no mark_exception_processed was ever
\* called with a timestamp of the same second, and answers true for a
\* timestamp once mark_exception_processed has returned for it.
C1_ProcessedIffMarked ==
  \A t \in Threads :
    (pc[t] = "checked" /\ ~storeFaulted) =>
      /\ (\A m \in markCalled : ~SameSecond(m, Row(t)[1]))
           => ~frame[t].processed
      /\ Row(t)[1] \in markReturned => frame[t].processed

\* A check that answers true for a timestamp marked by an earlier pass.
C1_Witness ==
  \E t \in Threads :
    /\ pc[t] = "checked" /\ ~storeFaulted
    /\ Row(t)[1] \in markReturned
    /\ frame[t].processed

\* C2: a pass over one unmarked record and then a second pass over the same
\* record, with the table service and the tracker answering: the first
\* creates one ticket, the second creates none and reports total 1,
\* created 0, skipped 1.
C2_SecondPassSkips ==
  \A t \in Threads :
    ( /\ AtSummary(t) /\ ~storeFaulted
      /\ prev.run /\ prev.tracker_ok
      /\ Len(prev.rows) = 1 /\ frame[t].exceptions = prev.rows
      /\ \A m \in prev.marked0 : ~SameSecond(m, prev.rows[1][1]) )
    => /\ prev.made = 1 /\ prev.created = 1 /\ prev.skipped = 0
       /\ obs[t].posts = 0 /\ obs[t].made = 0
       /\ SummaryOf(frame[t]) = Summary200(1, 0, 1)

\* The second of two passes over one record whose first pass made the ticket.
C2_Witness ==
  \E t \in Threads :
    /\ AtSummary(t) /\ ~storeFaulted
    /\ prev.run /\ prev.tracker_ok /\ prev.made = 1
    /\ Len(prev.rows) = 1 /\ frame[t].exceptions = prev.rows
    /\ SummaryOf(frame[t]) = Summary200(1, 0, 1)

\* How many records of a trace ended as `what`.
CountOf(trace, what) == Cardinality({i \in 1..Len(trace) : trace[i] = what})

\* C3: a record whose ticket creation fails stops nothing: the pass ends
\* with its summary after every record was handled, the failed record is
\* counted neither as created nor as skipped, and skipped + created never
\* exceeds the total.
C3_FailureIsIsolated ==
  \A t \in Threads :
    /\ response[t].kind # "error"
    /\ AtSummary(t) =>
         LET f == frame[t]
             tr == obs[t].trace
         IN /\ Len(tr) = Len(f.exceptions)
            /\ f.created = CountOf(tr, "created")
            /\ f.skipped = CountOf(tr, "skipped")
            /\ f.skipped + f.created
                 = Len(f.exceptions) - CountOf(tr, "failed") - CountOf(tr, "no_key")
            /\ f.skipped + f.created <= Len(f.exceptions)

\* A pass whose first record failed at the tracker and whose second got its
\* ticket.
C3_Witness ==
  \E t \in Threads :
    /\ AtSummary(t)
    /\ obs[t].trace = <<"failed", "created">>
    /\ obs[t].posts = 2
    /\ SummaryOf(frame[t]) = Summary200(2, 1, 0)

\* C4: the table never holds two markers of one (PartitionKey, RowKey), and
\* a mark that writes leaves its own marker as the one of that key.
C4_OneMarkerPerRowKey ==
  /\ \A e1, e2 \in table : SameKey(e1, e2) => e1 = e2
  /\ \A e \in table : e.PartitionKey = "exceptions"
  /\ \A t \in Threads :
       (pc[t] = "marked" /\ obs[t].mark_end = "written") =>
         LET w == obs[t].written[Len(obs[t].written)]
         IN /\ w \in table
            /\ \A e \in table : SameKey(e, w) => e = w

\* A second mark of one second has replaced the marker of the first.
C4_Witness ==
  \E t \in Threads :
    /\ pc[t] = "marked" /\ obs[t].mark_end = "written"
    /\ Len(obs[t].written) = 2
    /\ SameKey(obs[t].written[1], obs[t].written[2])
    /\ obs[t].written[1] # obs[t].written[2]
    /\ obs[t].written[1] \notin table
    /\ obs[t].written[2] \in table

\* C5: mark_exception_processed never raises, makes at most max_retries
\* attempts, and when an attempt fails because the table is not found it
\* retries: it ends with the marker written or with all max_retries
\* attempts made.
C5_RetriesWhenTableNotFound ==
  \A t \in Threads :
    /\ obs[t].raised # "mark_exception_processed"
    /\ obs[t].mark_upserts <= max_retries
    /\ (pc[t] = "marked" /\ obs[t].upsert_error = "ResourceNotFoundError")
         => \/ obs[t].mark_end = "written"
            \/ obs[t].mark_upserts = max_retries

\* C6: is_exception_processed never raises and answers false when it cannot
\* read the store (no connection, table not found, any other store error);
\* a pass run wholly during a store outage sends a ticket request for every
\* record it fetched.
C6_CheckFailsOpen ==
  \A t \in Threads :
    /\ obs[t].raised # "is_exception_processed"
    /\ (pc[t] = "checked" /\ obs[t].check_error # "none")
         => ~frame[t].processed
    /\ (AtSummary(t) /\ obs[t].outage)
         => obs[t].posts = Len(frame[t].exceptions)

\* A check that met a missing table and answered false.
C6_Witness ==
  \E t \in Threads :
    /\ pc[t] = "checked"
    /\ obs[t].check_error = "ResourceNotFoundError"
    /\ ~frame[t].processed

\* C7: a pass over an empty list goes straight to the all-zero summary: no
\* ticket request, no store call, and the markers and the cached table
\* handle are what they were when the pass began.
C7_EmptyPassTouchesNothing ==
  \A t \in Threads :
    /\ (pc[t] # "idle" /\ frame[t].exceptions = <<>>) =>
         /\ pc[t] = "return_empty"
         /\ obs[t].posts = 0 /\ obs[t].store_calls = 0 /\ obs[t].upserts = 0
         /\ table = obs[t].table0
         /\ table_client = obs[t].client0
    /\ (pc[t] = "idle" /\ prev.run /\ prev.rows = <<>>
        /\ response[t].kind = "summary")
         => response[t] = Summary200(0, 0, 0)

\* An empty pass of a service that holds a marker and a cached handle.
C7_Witness ==
  \E t \in Threads :
    /\ pc[t] = "return_empty"
    /\ table # {} /\ table_client # None
    /\ table = obs[t].table0

\* The record of C8 as manual_trigger receives it.
C8_Record == FormattedRow(BackendRecord("2024-01-01T00:00:00Z", "P1"))

\* The pass of thread t is the scenario of C8: the one record, no marker of
\* its second at the start, the table service and the tracker answering.
C8_Scenario(t) ==
  /\ AtSummary(t) /\ ~storeFaulted /\ obs[t].tracker_ok
  /\ frame[t].exceptions = <<C8_Record>>
  /\ \A e \in obs[t].table0 :
       ~SameSecond(e.OriginalTimestamp, "2024-01-01T00:00:00Z")

\* C8: one unmarked record (P1, 2024-01-01T00:00:00Z) with store and tracker
\* answering: exactly one ticket request, exactly one marker written, its
\* RowKey '20240101000000', and the summary total 1, created 1, skipped 0.
C8_OneRecordOneTicketOneMarker ==
  \A t \in Threads :
    C8_Scenario(t) =>
      /\ obs[t].posts = 1 /\ obs[t].made = 1
      /\ obs[t].upserts = 1 /\ Len(obs[t].written) = 1
      /\ obs[t].written[1].RowKey = "20240101000000"
      /\ obs[t].written[1].PartitionKey = "exceptions"
      /\ table = obs[t].table0 \cup {obs[t].written[1]}
      /\ SummaryOf(frame[t]) = Summary200(1, 1, 0)

C8_Witness ==
  \E t \in Threads : C8_Scenario(t) /\ obs[t].posts = 1

\* The inputs on which the telemetry query fails: credentials missing, no
\* answer, a status other than 200, a body that is not JSON, no table in it,
\* or a table without one of the columns a record is built from.
QueryFails(in) ==
  \/ ~in.environ.APPINSIGHTS_APP_ID \/ ~in.environ.APPINSIGHTS_API_KEY
  \/ ~in.resp.sent
  \/ in.resp.status # 200
  \/ ~in.resp.json
  \/ "tables" \notin in.resp.keys
  \/ in.resp.tables = <<>>
  \/ /\ in.resp.tables[1].rows # <<>>
     /\ \E c \in {"timestamp", "problemId", "type", "outerMessage",
                  "customDimensions"} :
          \A j \in 1..Len(in.resp.tables[1].columns) :
            in.resp.tables[1].columns[j] # c

\* C9: query_app_insights never raises; on every failing input it returns
\* the empty list.
C9_QueryNeverRaises ==
  /\ qOut.kind # "raise"
  /\ (qOut # NotRun /\ QueryFails(qIn)) => qOut = Returned(<<>>)

\* A 200 answer whose table lacks a column: the KeyError becomes [].
C9_Witness ==
  /\ qOut = Returned(<<>>)
  /\ qIn.environ.APPINSIGHTS_APP_ID /\ qIn.environ.APPINSIGHTS_API_KEY
  /\ qIn.resp.sent /\ qIn.resp.status = 200 /\ qIn.resp.json
  /\ "tables" \in qIn.resp.keys /\ qIn.resp.tables # <<>>
  /\ qIn.resp.tables[1].rows # <<>>
  /\ QueryFails(qIn)

\* One ticket request for each record that was not skipped, counting the
\* record in hand once its request is out: none is sent twice.
OnePostPerRecord(t) ==
  LET tr == obs[t].trace
      inHand == IF pc[t] \notin {"idle", "return_empty", "loop", "return_summary"}
                   /\ obs[t].answer # "unsent"
                THEN 1 ELSE 0
  IN /\ obs[t].posts = Len(tr) - CountOf(tr, "skipped") + inHand
     /\ obs[t].posts <= Len(frame[t].exceptions)

\* C10: create_jira_issue sends one request per call, never a second, and
\* raises on every answer that is not 2xx and on a transport failure; a pass
\* sends at most one request per record.
C10_RaisesOnAnyNon2xx ==
  \A t \in Threads :
    /\ OnePostPerRecord(t)
    /\ obs[t].answer \notin {"unsent", "2xx"}
         => obs[t].raised = "create_jira_issue"

\* The last answer of a trail of vault answers.
Last(tr) == tr[Len(tr)]

\* The required secrets, each with its name in the vault and its name in
\* the environment.
Required ==
  {[secret |-> Join(REQUIRED_SECRETS[i]), env |-> env_name(REQUIRED_SECRETS[i])] :
     i \in 1..Len(REQUIRED_SECRETS)}

\* get_required_secrets has scanned the environment.
Scanned == loader.pc \in {"fetch", "resolved", "loaded"}

\* C11: a required secret that the environment sets is taken from the
\* environment and the vault is never asked for it; the vault is asked only
\* for secrets the environment does not set.  JIRA-TOKEN is looked up in the
\* environment as JIRA_TOKEN.
C11_EnvironmentFirst ==
  /\ \A s \in Required :
       /\ Truthy(loader.env0[s.env]) =>
            /\ loader.trail[s.secret] = <<>>
            /\ Scanned => /\ s.env \in DOMAIN loader.secrets
                          /\ loader.secrets[s.env] = loader.env0[s.env]
       /\ loader.trail[s.secret] # <<>> => ~Truthy(loader.env0[s.env])
  /\ Truthy(loader.env0["JIRA_TOKEN"]) =>
       /\ loader.trail["JIRA-TOKEN"] = <<>>
       /\ Scanned => loader.secrets["JIRA_TOKEN"] = loader.env0["JIRA_TOKEN"]

\* A load that took JIRA_TOKEN from the environment and asked the vault for
\* another secret.
C11_Witness ==
  /\ loader.pc = "loaded"
  /\ loader.secrets["JIRA_TOKEN"] = "env:JIRA_TOKEN"
  /\ loader.trail["JIRA-TOKEN"] = <<>>
  /\ loader.trail["JIRA-URL"] # <<>>

\* C12: for one secret the vault is called at most get_secret_max_retries
\* times; every call but the last was answered 429; a 429 on the last
\* allowed call is raised; any other error is raised when it first occurs,
\* with no call after it.
C12_RetryOnlyOn429 ==
  \A n \in SecretNames :
    LET tr == loader.trail[n]
    IN /\ Len(tr) <= get_secret_max_retries
       /\ \A k \in 1..(Len(tr) - 1) : tr[k] = "429"
       /\ tr # <<>> =>
            /\ (Last(tr) = "429" /\ Len(tr) = get_secret_max_retries)
                 => loader.raised[n] = "429"
            /\ (Last(tr) = "429" /\ Len(tr) < get_secret_max_retries)
                 => loader.raised[n] = "none"
            /\ Last(tr) \in {"404", "500", "ServiceRequestError"}
                 => loader.raised[n] = Last(tr)
            /\ Last(tr) = "value" => loader.raised[n] = "none"

\* Five calls for one secret, all answered 429, the last one raised.
C12_Witness ==
  \E n \in SecretNames :
    /\ loader.trail[n] = <<"429", "429", "429", "429", "429">>
    /\ loader.raised[n] = "429"

\* The secrets of this load that neither the environment nor the vault
\* gave: the environment does not set them and the vault call has raised.
Unresolved ==
  {s.secret : s \in {r \in Required : /\ ~Truthy(loader.env0[r.env])
                                       /\ loader.raised[r.secret] # "none"}}

\* C13: without a vault name load_secrets fails with a ValueError; a secret
\* absent from environment and vault makes it fail with a ValueError that
\* names every unresolved secret, each secret the environment lacks having
\* been looked up; a process serves only with every secret resolved.
C13_RefusesToStart ==
  /\ (loader.pc # "unloaded" /\ ~Truthy(loader.env0["AZURE_VAULT_NAME"]))
       => /\ loader.pc = "failed"
          /\ loader.error.type = "ValueError"
          /\ loader.error.names = <<>>
  /\ loader.pc \in {"resolved", "loaded", "failed"} /\ Unresolved # {}
       => /\ loader.pc # "loaded"
          /\ loader.pc = "failed" =>
               /\ loader.error.type = "ValueError"
               /\ {loader.error.names[k] : k \in 1..Len(loader.error.names)}
                    = Unresolved
               /\ \A s \in Required :
                    ~Truthy(loader.env0[s.env]) => loader.trail[s.secret] # <<>>
  /\ loader.pc \in {"loaded", "serving"}
       => /\ loader.error.type = "none"
          /\ all_required_set(environ)

\* A failed load that names two secrets: the first is not in the vault, the
\* second was looked up after it.
C13_Witness ==
  /\ loader.pc = "failed"
  /\ Len(loader.error.names) = 2
  /\ loader.trail[loader.error.names[1]] = <<"404">>
  /\ loader.trail[loader.error.names[2]] # <<>>

\* C14: load_secrets changes no variable that had a non-empty value; a
\* variable it changes was unset or empty and gets the resolved secret; a
\* load that follows a successful load changes nothing.
C14_LoadKeepsEnvironment ==
  /\ \A n \in EnvNames :
       /\ Truthy(loader.env0[n]) => environ[n] = loader.env0[n]
       /\ environ[n] # loader.env0[n]
            => /\ n \in DOMAIN loader.secrets
               /\ environ[n] = loader.secrets[n]
  /\ (loader.pc = "loaded" /\ loader.loads >= 2) => environ = loader.env0

\* A second load after one that wrote a secret of the vault.
C14_Witness ==
  /\ loader.pc = "loaded" /\ loader.loads = 2
  /\ environ = loader.env0
  /\ environ["JIRA_URL"] = "vault:JIRA-URL"

\* C15: every HTTP 500 answer of /appget and /trigger carries the message
\* 'Internal server error' and never the text of the exception.
C15_GenericError500 ==
  \A t \in Threads :
    (response[t].kind # "none" /\ response[t].status = 500)
      => /\ response[t].error = "Internal server error"
         /\ response[t].error \notin ExceptionTexts

\* C16: passes racing on server threads over one unmarked exception may
\* each create a ticket for it, one per thread at most; the table never
\* holds more than one marker of its row key, and a pass that begins once
\* the marker is written skips the record and creates nothing.
C16_RaceKeepsOneMarker ==
  /\ Cardinality({e \in table : e.RowKey = "20240101000000"}) <= 1
  /\ \A e1, e2 \in table : SameKey(e1, e2) => e1 = e2
  /\ Len(tickets) <= Cardinality(Threads)
  /\ \A t \in Threads :
       /\ obs[t].made <= 1
       /\ obs[t].table0 # {} =>
            /\ obs[t].posts = 0
            /\ pc[t] = "checked" => frame[t].processed
            /\ AtSummary(t) => SummaryOf(frame[t]) = Summary200(1, 0, 1)

\* Two tickets for the one exception, one marker, and a later pass that
\* skipped the record.
C16_Witness ==
  /\ Len(tickets) = 2
  /\ tickets[1].summary = tickets[2].summary
  /\ Cardinality(table) = 1
  /\ \E t \in Threads :
       /\ AtSummary(t)
       /\ obs[t].table0 # {}
       /\ frame[t].skipped = 1

\* C17: whatever the interleaving of get_table_client calls on the global
\* table_client, a call that returns gives its caller a handle, never None;
\* a call that does not return has raised ConnectionError.
C17_NeverReturnsNone ==
  \A t \in Threads :
    pc[t] \in {"query", "upsert"} => frame[t].client = Handle

\* C18: get_table_client returns the cached handle only after a probe of
\* it succeeded; a failed attempt discards the handle, and the next attempt
\* of the same call connects anew, the table being there after create_table
\* whether or not it was before; a call makes at most MAX_RETRIES attempts,
\* and the ConnectionError after the last one leaves table_client None.
C18_ProbeReconnectGiveUp ==
  \A t \in Serial :
    /\ frame[t].attempt <= MAX_RETRIES
    /\ pc[t] \in {"gtc_probe", "gtc_create", "gtc_assign", "gtc_return",
                  "gtc_except"} => frame[t].attempt < MAX_RETRIES
    /\ pc[t] = "gtc_probe" => table_client = Handle /\ frame[t].attempt = 0
    /\ pc[t] = "gtc_create" => table_client = None
    /\ pc[t] = "gtc_assign" => storeUp /\ tableExists
    /\ pc[t] = "gtc_return" => storeUp /\ tableExists /\ table_client = Handle
    /\ pc[t] \in {"query", "upsert"} => frame[t].client = Handle
    /\ pc[t] = "gtc_for" /\ frame[t].attempt > 0 => table_client = None
    /\ pc[t] = "checked" /\ obs[t].check_error = "ConnectionError" =>
         /\ table_client = None
         /\ frame[t].attempt = MAX_RETRIES
    /\ pc[t] = "marked" /\ obs[t].mark_end = "ConnectionError" =>
         /\ table_client = None
         /\ frame[t].attempt = MAX_RETRIES

\* The probe of the cached handle failed on the first attempt and the
\* second attempt of the same call has connected anew.
C18_Witness ==
  /\ pc[1] = "gtc_return"
  /\ frame[1].caller = "check"
  /\ frame[1].row = 1
  /\ obs[1].client0 = Handle
  /\ frame[1].attempt = 1
  /\ table_client = Handle

\* C19: in one pass with the table service and the tracker answering, at
\* most one ticket is made per row key: of two records of the pass whose
\* timestamps fall in the same second, the later one is skipped and the
\* earlier one was ticketed and marked (or skipped for a marker that was
\* there before), whatever their problemIds.
C19_OneTicketPerRowKeyInPass ==
  \A t \in Serial :
    (~storeFaulted /\ obs[t].tracker_ok) =>
      LET f == frame[t]
          tr == obs[t].trace
          ts(i) == f.exceptions[i][1]
      IN /\ \A i, j \in 1..Len(tr) :
              (i < j /\ SameSecond(ts(i), ts(j))) =>
                /\ tr[j] = "skipped"
                /\ tr[i] \in {"created", "skipped"}
                /\ (\A e \in obs[t].table0 :
                      ~SameSecond(e.OriginalTimestamp, ts(i))) =>
                     /\ tr[i] = "created"
                     /\ \E e \in table : /\ e.RowKey = row_key_of(ts(i))
                                         /\ e.OriginalTimestamp = ts(i)
         /\ \A i, j \in 1..Len(tr) :
              (tr[i] = "created" /\ tr[j] = "created" /\ i # j) =>
                row_key_of(ts(i)) # row_key_of(ts(j))
         /\ obs[t].posts
              <= Cardinality({row_key_of(ts(i)) : i \in 1..Len(f.exceptions)})

\* A pass over (T1f, P2) and then (T1, P1), no marker of that second before:
\* one ticket, for the first; the second skipped.
C19_Witness ==
  \E t \in Serial :
    /\ AtSummary(t) /\ ~storeFaulted /\ obs[t].tracker_ok
    /\ obs[t].table0 = {}
    /\ Len(frame[t].exceptions) = 2
    /\ frame[t].exceptions[1][1] = T1f /\ frame[t].exceptions[1][2] = "P2"
    /\ frame[t].exceptions[2][1] = T1 /\ frame[t].exceptions[2][2] = "P1"
    /\ obs[t].trace = <<"created", "skipped">>
    /\ obs[t].posts = 1
    /\ SummaryOf(frame[t]) = Summary200(2, 1, 1)

\* The thread is inside mark_exception_processed for the record in hand.
InMark(t) ==
  /\ frame[t].caller = "mark"
  /\ pc[t] \in {"gtc_for", "gtc_probe", "gtc_create", "gtc_assign",
                "gtc_return", "gtc_except", "upsert", "marked"}

\* C20: a pass handles its records in the order the query returned them,
\* and each record as check, then ticket, then mark: the ticket request is
\* sent only after the check answered false, the mark starts only with the
\* key of the ticket just created for that record, every marker's JiraKey is
\* the key of a created ticket of that record, and a record whose ticket
\* creation failed gets no marker.
C20_CheckTicketMarkInOrder ==
  /\ \A e \in table :
       \E k \in 1..Len(tickets) :
         /\ tickets[k].key = e.JiraKey
         /\ tickets[k].summary
              = Summary(e.OriginalProblemId, e.OriginalTimestamp)
  /\ \A t \in Serial :
       LET f == frame[t]
           tr == obs[t].trace
           w == obs[t].written
           ts(i) == f.exceptions[i][1]
           pid(i) == f.exceptions[i][2]
           Of(e, i) == e.OriginalTimestamp = ts(i) /\ e.OriginalProblemId = pid(i)
           idx(e) == CHOOSE i \in 1..Len(f.exceptions) : Of(e, i)
       IN /\ pc[t] \notin {"idle", "return_empty"} =>
               /\ Len(tr) = f.row - 1
               /\ f.row <= Len(f.exceptions) + 1
          /\ pc[t] = "post" => ~f.processed /\ obs[t].posts = Len(tr) - f.skipped
          /\ InMark(t) =>
               /\ ~f.processed
               /\ f.jira_response.has_key
               /\ Len(tickets) >= 1
               /\ tickets[Len(tickets)]
                    = [key |-> f.jira_response.key,
                       summary |-> Summary(Row(t)[2], Row(t)[1])]
          /\ \A k \in 1..Len(w) :
               /\ \E i \in 1..Len(f.exceptions) : Of(w[k], i)
               /\ idx(w[k]) <= f.row
               /\ idx(w[k]) <= Len(tr) => tr[idx(w[k])] = "created"
               /\ \A l \in 1..Len(w) : k < l => idx(w[k]) < idx(w[l])
          /\ \A i \in 1..Len(tr) :
               tr[i] \in {"failed", "no_key", "skipped"} =>
                 \A k \in 1..Len(w) : ~Of(w[k], i)

\* A pass of two records: the ticket of the first failed and it has no
\* marker, the second was ticketed and then marked with its ticket's key.
C20_Witness ==
  \E t \in Serial :
    /\ AtSummary(t)
    /\ Len(frame[t].exceptions) = 2
    /\ obs[t].trace[1] \in {"failed", "no_key"}
    /\ obs[t].trace[2] = "created"
    /\ Len(tickets) = 1
    /\ table = {Entity(frame[t].exceptions[2][2], frame[t].exceptions[2][1],
                       tickets[1].key)}
    /\ tickets[1].summary
         = Summary(frame[t].exceptions[2][2], frame[t].exceptions[2][1])

\* The mark of the record in hand has ended without writing.
MarkFailed(t) ==
  /\ pc[t] = "marked"
  /\ obs[t].mark_end \in {"error", "ConnectionError", "no_client", "gave_up"}

\* C21: tickets_created counts every record whose ticket call returned a
\* key, whether or not its marker was written: a mark that fails writes
\* nothing and raises nothing, the record is counted as created, and the
\* next pass over the same record, no marker of its second being there,
\* sends a ticket request again and, the tracker answering, makes a second
\* ticket for it.
C21_CreatedCountsUnmarked ==
  \A t \in Serial :
    /\ pc[t] = "marked" => frame[t].jira_response.has_key
    /\ MarkFailed(t) =>
         /\ obs[t].raised = "none"
         /\ \A k \in 1..Len(obs[t].written) :
              obs[t].written[k].OriginalTimestamp # Row(t)[1]
    /\ AtSummary(t) =>
         /\ frame[t].created = obs[t].made
         /\ CountOf(obs[t].trace, "created") = obs[t].made
         /\ Len(obs[t].written) <= frame[t].created
    /\ ( /\ AtSummary(t)
         /\ prev.run /\ Len(prev.rows) = 1 /\ frame[t].exceptions = prev.rows
         /\ prev.made = 1 /\ prev.written = 0
         /\ \A e \in obs[t].table0 :
              ~SameSecond(e.OriginalTimestamp, prev.rows[1][1]) )
       => /\ prev.created = 1
          /\ obs[t].posts = 1
          /\ obs[t].tracker_ok =>
               /\ obs[t].made = 1
               /\ frame[t].created = 1
               /\ Len(tickets) >= 2
               /\ tickets[Len(tickets)].summary
                    = Summary(prev.rows[1][2], prev.rows[1][1])
               /\ \E k \in 1..(Len(tickets) - 1) :
                    tickets[k].summary = tickets[Len(tickets)].summary

\* The second of two passes over one record: the first made the ticket and
\* failed to mark it, and reported it created; the second made another.
C21_Witness ==
  \E t \in Serial :
    /\ AtSummary(t)
    /\ prev.run /\ Len(prev.rows) = 1 /\ frame[t].exceptions = prev.rows
    /\ prev.made = 1 /\ prev.written = 0 /\ prev.created = 1
    /\ obs[t].made = 1
    /\ Len(tickets) = 2
    /\ tickets[1].summary = tickets[2].summary

\* The caps of the loops of a pass on thread t.
Bounded(t) ==
  /\ frame[t].attempt <= MAX_RETRIES
  /\ pc[t] \in {"gtc_probe", "gtc_create", "gtc_assign", "gtc_return",
                "gtc_except"} => frame[t].attempt < MAX_RETRIES
  /\ frame[t].retry_count <= max_retries
  /\ obs[t].mark_upserts <= 3
  /\ frame[t].row <= Len(frame[t].exceptions) + 1
  /\ OnePostPerRecord(t)

\* C22: every pass ends with a response when each call it makes returns or
\* raises.  A get_table_client call makes at most MAX_RETRIES attempts, a
\* mark at most 3 upserts, and each record that is not skipped gets one
\* ticket request, never a second; the list is walked once.
C22_PassTerminates ==
  /\ [](\A t \in Serial : Bounded(t))
  /\ \A t \in Serial :
       (pc[t] # "idle") ~> (pc[t] = "idle" /\ response[t].kind # "none")

\* A pass of two records that met a store failure has answered with its
\* summary.
C22_Witness ==
  \E t \in Serial :
    /\ pc[t] = "idle"
    /\ response[t].kind = "summary"
    /\ prev.run /\ prev.faulted
    /\ Len(prev.rows) = 2
    /\ prev.made >= 1

====
